---- MODULE Spec2Model ----
(***************************************************************************)
(* VCFReader of variantworks/io/vcfio.py: the constructor walks a list of  *)
(* VcfBamPath entries, opens each VCF with the pyVCF reader, filters and   *)
(* classifies each record and appends the Variants to self._labels;        *)
(* __getitem__ and __len__ read the finished list.                         *)
(*                                                                         *)
(* The constructor is one synchronous call.  It is cut into steps at the   *)
(* places where it consumes input: the next element of vcf_bam_list, the   *)
(* header of the opened file, the next record of the stream.  The caller's *)
(* list and the files' contents are drawn when the code reaches them; what *)
(* was read is kept in vcf_bam_list, opened and hist.                      *)
(***************************************************************************)
EXTENDS Integers, Sequences, FiniteSets

\* ------------------------------------------------------------------ bounds
MaxEntries == 2     \* entries of vcf_bam_list
MaxRecords == 2     \* records read during one construction, over all files

\* ------------------------------------------------------- Python values
\* A value that is either None or a str; a str is its sequence of characters.
None   == [isNone |-> TRUE,  s |-> << >>]
Str(s) == [isNone |-> FALSE, s |-> s]

\* Truth value of a None-or-str value: None and "" are falsy.
Truthy(v) == ~v.isNone /\ Len(v.s) > 0

\* s[-3:] of a str: the last three characters, or all of s when it is shorter.
Last3(s) == IF Len(s) <= 3 THEN s ELSE SubSeq(s, Len(s) - 2, Len(s))

\* An is_fp argument: a genuine bool, or an int the caller passed instead.
PyTrue  == [type |-> "bool", val |-> TRUE]
PyFalse == [type |-> "bool", val |-> FALSE]
PyOne   == [type |-> "int",  val |-> TRUE]

\* str.split(':') : the pieces between the separators, empty pieces kept.
RECURSIVE split(_)
split(s) ==
    IF \A i \in 1..Len(s) : s[i] # ":"
    THEN << s >>
    ELSE LET k == CHOOSE i \in 1..Len(s) :
                      s[i] = ":" /\ \A j \in 1..(i - 1) : s[j] # ":"
         IN  << SubSeq(s, 1, k - 1) >> \o split(SubSeq(s, k + 1, Len(s)))

\* ------------------------------------------------------------- inputs
VcfPaths == { None, Str(<< >>), Str(<<"a", ".", "v", "c", "f">>),
              Str(<<"a", ".", "g", "z">>) }
BamPaths == { None, Str(<<"a", ".", "b", "a", "m">>) }
FpFlags  == { PyTrue, PyFalse, PyOne }

\* VcfBamPath(vcf, bam, is_fp)
VcfBamPath == [vcf : VcfPaths, bam : BamPaths, is_fp : FpFlags]

\* Number of samples a VCF header declares: none, one, several.
SampleCounts == {0, 1, 2}

Formats == { None, Str(<<"G", "T", ":", "G", "Q">>) }
Alts    == { <<"T">>, <<"T", "C">> }
Shapes  == { [is_snp |-> TRUE,  is_indel |-> FALSE, is_deletion |-> FALSE],
             [is_snp |-> FALSE, is_indel |-> TRUE,  is_deletion |-> FALSE],
             [is_snp |-> FALSE, is_indel |-> TRUE,  is_deletion |-> TRUE] }

\* The records a stream of a file with n samples may deliver at position p.
\* ALT has at least one element (a VCF line always has an ALT column); the
\* counts are counts of distinct samples: num_het + num_hom_alt <= num_called
\* <= n.
Counts(n) == { k \in [called : 0..n, het : 0..1, hom_alt : 0..1] :
                   k.het + k.hom_alt <= k.called }

Records(n, p) ==
    { [POS |-> p, is_snp |-> sh.is_snp, is_indel |-> sh.is_indel,
       is_deletion |-> sh.is_deletion, ALT |-> alt, FORMAT |-> fmt,
       num_called |-> k.called, num_het |-> k.het,
       num_hom_alt |-> k.hom_alt] :
         sh \in Shapes, alt \in Alts, fmt \in Formats, k \in Counts(n) }

NoRecord == [POS |-> 0, is_snp |-> FALSE, is_indel |-> FALSE,
             is_deletion |-> FALSE, ALT |-> << >>, FORMAT |-> None,
             num_called |-> 0, num_het |-> 0, num_hom_alt |-> 0]

\* ------------------------------------------------------------- state
VARIABLES
    vcf_bam_list,   \* the entries the for-loop of __init__ has fetched so far
    pc,             \* "loop" | "open" | "parse" | "done" | "failed"
    labels,         \* self._labels
    error,          \* the exception that left __init__, or NoError
    returned,       \* TRUE once the constructor has handed the object back
    vcf_reader,     \* the reader _parse_vcf is iterating, or NoReader
    opened,         \* entries whose file vcf.Reader has opened so far
    handles,        \* entries whose file handle is open
    hist,           \* entry, POS, is_snp and ALT of every record read so far
    rec,            \* the record of the latest loop iteration of _parse_vcf
    warnings,       \* warnings.warn calls so far
    got             \* outcome of the latest __getitem__ call

vars == << vcf_bam_list, pc, labels, error, returned, vcf_reader, opened,
           handles, hist, rec, warnings, got >>

\* A reader: the entry whose file it reads and its len(vcf_reader.samples).
NoReader == [entry |-> 0, samples |-> 0]

NoError == [exc |-> "none", line |-> 0]
Raise(exc, line) == [exc |-> exc, line |-> line]

NoCall == [status |-> "none", idx |-> 0, value |-> << >>]

\* The entry being processed and its index in vcf_bam_list.
cur  == Len(vcf_bam_list)
elem == vcf_bam_list[cur]

\* len(vcf_reader.samples)
nsamples == vcf_reader.samples

\* Position in its file of the latest record read of the current entry.
npos == Cardinality({ i \in 1..Len(hist) : hist[i].entry = cur })

\* ------------------------------------------------------- classification
\* Result of a call that returns a value or raises.
Ok(v)      == [ok |-> TRUE,  val |-> v,      err |-> NoError]
Raised(e)  == [ok |-> FALSE, val |-> "none", err |-> e]

\* Faulty variant: the counts are looked at before the false-positive flag.
_get_variant_zygosity_counts_first(record, is_fp) ==
    IF record.num_het > 0 THEN Ok("HETEROZYGOUS")
    ELSE IF record.num_hom_alt > 0 THEN Ok("HOMOZYGOUS")
    ELSE IF is_fp THEN Ok("NO_VARIANT")
    ELSE Raised(Raise("ValueError", 87))

_get_variant_zygosity(record, is_fp) ==
    IF is_fp THEN Ok("NO_VARIANT")
    ELSE IF record.num_het > 0 THEN Ok("HETEROZYGOUS")
    ELSE IF record.num_hom_alt > 0 THEN Ok("HOMOZYGOUS")
    ELSE Raised(Raise("ValueError", 87))

_get_variant_type(record) ==
    IF record.is_snp THEN Ok("SNP")
    ELSE IF record.is_indel
         THEN IF record.is_deletion THEN Ok("DELETION") ELSE Ok("INSERTION")
    ELSE Raised(Raise("ValueError", 107))

\* Variant(...): the fields the record and the entry determine.  chrom, id,
\* ref, quality, filter, info and samples are copied from the record
\* unchanged and are left out.
Variant(record, alt, var_format, var_zyg, var_type, vcf_file, bam) ==
    [pos |-> record.POS, allele |-> alt, format |-> var_format,
     zygosity |-> var_zyg, type |-> var_type, vcf |-> vcf_file, bam |-> bam]

\* Faulty variant: a missing FORMAT gives an empty format for every entry.
parse_format_lenient(record, is_fp) ==
    IF ~record.FORMAT.isNone THEN Ok(split(record.FORMAT.s))
    ELSE Ok(<< >>)

\* record.FORMAT.split(':'), and what the AttributeError handler does when
\* FORMAT is None.
parse_format(record, is_fp) ==
    IF ~record.FORMAT.isNone THEN Ok(split(record.FORMAT.s))
    ELSE IF is_fp THEN Ok(<< >>)
    ELSE Raised(Raise("RuntimeError", 132))

\* The generator: out is what it yields before it ends, err the exception
\* that ends it (NoError when it is exhausted).  Zygosity and type are
\* computed before the first allele; the format is parsed inside the loop
\* over record.ALT, so an empty ALT raises nothing.  Variant(...) is a plain
\* dataclass constructor; the handler around it is never entered.
_create_variant_tuple_from_record(record, vcf_file, bam, is_fp) ==
    LET var_zyg  == _get_variant_zygosity(record, is_fp)
        var_type == _get_variant_type(record)
    IN  IF ~var_zyg.ok THEN [out |-> << >>, err |-> var_zyg.err]
        ELSE IF ~var_type.ok THEN [out |-> << >>, err |-> var_type.err]
        ELSE IF Len(record.ALT) = 0 THEN [out |-> << >>, err |-> NoError]
        ELSE IF ~parse_format(record, is_fp).ok
             THEN [out |-> << >>, err |-> parse_format(record, is_fp).err]
        ELSE LET var_format == parse_format(record, is_fp).val
             IN  [out |-> [i \in 1..Len(record.ALT) |->
                             Variant(record, record.ALT[i], var_format,
                                     var_zyg.val, var_type.val, vcf_file, bam)],
                  err |-> NoError]

\* ------------------------------------------------------------- actions
Init ==
    /\ vcf_bam_list = << >>
    /\ pc = "loop"
    /\ labels = << >>
    /\ error = NoError
    /\ returned = FALSE
    /\ vcf_reader = NoReader
    /\ opened = {}
    /\ handles = {}
    /\ hist = << >>
    /\ rec = NoRecord
    /\ warnings = << >>
    /\ got = NoCall

\* Faulty variant: the exception is caught and the loop over the entries
\* goes on.
Abort_swallowed(e) ==
    /\ pc' = "loop"
    /\ error' = e

\* An exception leaves __init__: nothing catches it, no object is returned.
Abort(e) ==
    /\ pc' = "failed"
    /\ error' = e

\* Faulty variant: only the vcf path is asserted.
assert_elem_vcf_only(e) == ~e.vcf.isNone

\* The assertion of __init__ on an entry.
assert_elem(e) == ~e.vcf.isNone /\ ~e.bam.isNone /\ e.is_fp.type = "bool"

\* Faulty variant: only files with several samples are refused.
unsupported_samples_multi(is_fp, n) == ~is_fp /\ n > 1

\* The sample check of _parse_vcf on a reader with n samples.
unsupported_samples(is_fp, n) == ~is_fp /\ n # 1

\* Faulty variants: the completeness check made after the SNP filter; the
\* multi-allele test off by one.
incomplete_calls_after_snp(record, is_fp, n) ==
    ~is_fp /\ record.is_snp /\ record.num_called < n
multiallele_off_by_one(record) == Len(record.ALT) > 2

\* The per-record tests of _parse_vcf, in the order the loop body makes them.
incomplete_calls(record, is_fp, n) == ~is_fp /\ record.num_called < n
not_snp(record)     == ~record.is_snp
multiallele(record) == Len(record.ALT) > 1

\* Faulty variant: new Variants are put in front.
append_all_front(l, out) == out \o l

\* labels.append(variant) for every variant the generator yields.
append_all(l, out) == l \o out

\* for elem in vcf_bam_list: fetch the next entry and assert it is valid.
NextElem ==
    /\ pc = "loop"
    /\ Len(vcf_bam_list) < MaxEntries
    /\ \E e \in VcfBamPath :
         /\ vcf_bam_list' = Append(vcf_bam_list, e)
         /\ IF assert_elem(e)
            THEN pc' = "open" /\ error' = error
            ELSE Abort(Raise("AssertionError", 50))
    /\ UNCHANGED << labels, returned, vcf_reader, opened, handles, hist, rec,
                    warnings, got >>

\* _parse_vcf up to its record loop: _get_file_reader, then the sample check.
\* vcf.Reader opens the file; n is the number of samples its header declares.
OpenVcf ==
    /\ pc = "open"
    /\ IF ~Truthy(elem.vcf)
       THEN /\ Abort(Raise("RuntimeError", 157))
            /\ UNCHANGED << vcf_reader, opened, handles >>
       ELSE IF Last3(elem.vcf.s) # <<".", "g", "z">>
       THEN /\ Abort(Raise("AssertionError", 160))
            /\ UNCHANGED << vcf_reader, opened, handles >>
       ELSE \E n \in SampleCounts :
              /\ vcf_reader' = [entry |-> cur, samples |-> n]
              /\ opened' = opened \cup {cur}
              /\ handles' = handles \cup {cur}
              /\ IF unsupported_samples(elem.is_fp.val, n)
                 THEN Abort(Raise("RuntimeError", 174))
                 ELSE pc' = "parse" /\ error' = error
    /\ UNCHANGED << vcf_bam_list, labels, returned, hist, rec, warnings, got >>

\* One iteration of "for record in vcf_reader": the whole loop body.
NextRecord ==
    /\ pc = "parse"
    /\ Len(hist) < MaxRecords
    /\ \E record \in Records(nsamples, npos + 1) :
         LET is_fp == elem.is_fp.val
             made  == _create_variant_tuple_from_record(
                          record, elem.vcf, elem.bam, is_fp)
             warn(msg) == Append(warnings, [entry |-> cur, pos |-> record.POS,
                                            msg |-> msg])
         IN  /\ rec' = record
             /\ hist' = Append(hist, [entry |-> cur, pos |-> record.POS,
                                       is_snp |-> record.is_snp,
                                       ALT |-> record.ALT])
             /\ IF incomplete_calls(record, is_fp, nsamples)
                THEN /\ Abort(Raise("RuntimeError", 178))
                     /\ UNCHANGED << labels, warnings >>
                ELSE IF not_snp(record)
                THEN /\ warnings' = warn("not an SNP record")
                     /\ UNCHANGED << labels, pc, error >>
                ELSE IF multiallele(record)
                THEN /\ warnings' = warn("multiallele")
                     /\ UNCHANGED << labels, pc, error >>
                ELSE /\ labels' = append_all(labels, made.out)
                     /\ IF made.err = NoError
                        THEN UNCHANGED << pc, error >>
                        ELSE Abort(made.err)
                     /\ UNCHANGED warnings
    /\ UNCHANGED << vcf_bam_list, returned, vcf_reader, opened, handles, got >>

\* The stream is exhausted: _parse_vcf returns to the loop of __init__.
\* Its locals (record, vcf_reader) go out of scope; nothing closes the reader.
EndOfFile ==
    /\ pc = "parse"
    /\ pc' = "loop"
    /\ rec' = NoRecord
    /\ vcf_reader' = NoReader
    /\ UNCHANGED << vcf_bam_list, labels, error, returned, opened, handles,
                    hist, warnings, got >>

\* vcf_bam_list is exhausted: __init__ returns and the caller has the reader.
Return ==
    /\ pc = "loop"
    /\ pc' = "done"
    /\ returned' = TRUE
    /\ UNCHANGED << vcf_bam_list, labels, error, vcf_reader, opened, handles,
                    hist, rec, warnings, got >>

\* Faulty variant: negative indexes are refused.
__getitem__strict(idx) ==
    IF 0 <= idx /\ idx < Len(labels)
    THEN [status |-> "ok", idx |-> idx, value |-> << labels[idx + 1] >>]
    ELSE [status |-> "IndexError", idx |-> idx, value |-> << >>]

\* self._labels[idx] of a Python list: idx in 0..len-1 counts from the
\* front, idx in -len..-1 from the back, anything else is an IndexError.
__getitem__(idx) ==
    IF 0 <= idx /\ idx < Len(labels)
    THEN [status |-> "ok", idx |-> idx, value |-> << labels[idx + 1] >>]
    ELSE IF idx < 0 /\ -idx <= Len(labels)
    THEN [status |-> "ok", idx |-> idx, value |-> << labels[Len(labels) + idx + 1] >>]
    ELSE [status |-> "IndexError", idx |-> idx, value |-> << >>]

__len__ == Len(labels)

\* The indexes tried: every position a list of MaxRecords Variants has,
\* counted from either end, and one more on each side.
Indexes == (-(MaxRecords + 1))..(MaxRecords + 1)

GetItem ==
    /\ pc = "done"
    /\ \E idx \in Indexes : got' = __getitem__(idx)
    /\ UNCHANGED << vcf_bam_list, pc, labels, error, returned, vcf_reader,
                    opened, handles, hist, rec, warnings >>

\* The code never closes a reader.  A handle goes away only when the
\* interpreter collects a reader nothing refers to any more, which may
\* happen at any time after _parse_vcf has left it behind, or never.
Finalize ==
    /\ \E i \in handles :
         /\ ~(pc = "parse" /\ i = cur)
         /\ handles' = handles \ {i}
    /\ UNCHANGED << vcf_bam_list, pc, labels, error, returned, vcf_reader,
                    opened, hist, rec, warnings, got >>

Next ==
    \/ NextElem
    \/ OpenVcf
    \/ NextRecord
    \/ EndOfFile
    \/ Return
    \/ GetItem

Spec == Init /\ [][Next]_vars

\* The program together with the interpreter's collector.
NextGC ==
    \/ Next
    \/ Finalize

SpecGC == Init /\ [][NextGC]_vars

\* =================================================================== claims
\* The error kinds of the specification, by the raise that produces them.
ErrorKind(e) ==
    IF e = Raise("AssertionError", 50) \/ e = Raise("AssertionError", 160)
       \/ e = Raise("RuntimeError", 157)
    THEN "ConfigurationError"
    ELSE IF e = Raise("RuntimeError", 174) THEN "UnsupportedInputError"
    ELSE IF e = NoError THEN "none"
    ELSE "MalformedRecordError"

\* An entry is invalid when a path is absent or is_fp is not a genuine bool.
InvalidEntry(e) == e.vcf.isNone \/ e.bam.isNone \/ e.is_fp.type # "bool"

\* The records read so far that pass the SNP filter and the multi-allele
\* filter, in the order they were read.
PassesFilters(h) == h.is_snp /\ Len(h.ALT) <= 1
Survivors == SelectSeq(hist, PassesFilters)
Filtered  == SelectSeq(hist, LAMBDA h : ~PassesFilters(h))

\* is_fp of the entry with index i.
IsFp(i) == vcf_bam_list[i].is_fp.val

\* The latest record went through the loop body of the current entry.
Processed == rec # NoRecord
\* ... and the call-completeness check did not apply to it or let it pass.
Complete == IsFp(cur) \/ rec.num_called >= nsamples
SoftFiltered == ~rec.is_snp \/ Len(rec.ALT) > 1

\* The pieces of a split joined with ':' again.
RECURSIVE Join(_)
Join(pieces) ==
    IF Len(pieces) = 0 THEN << >>
    ELSE IF Len(pieces) = 1 THEN pieces[1]
    ELSE pieces[1] \o <<":">> \o Join(Tail(pieces))

\* ---------------------------------------------------------------------- C1
\* C1: whenever the build has not failed, and so when it has completed, the
\* collection is exactly the Variants of the records that passed both
\* filters, one per record, in entry order and within a file in stream
\* order; length() is the number of such records.
C1_CollectionIsSurvivors ==
    pc # "failed" =>
        /\ __len__ = Len(Survivors)
        /\ \A i \in 1..Len(Survivors) :
             /\ labels[i].pos = Survivors[i].pos
             /\ labels[i].vcf = vcf_bam_list[Survivors[i].entry].vcf
             /\ labels[i].bam = vcf_bam_list[Survivors[i].entry].bam
             /\ labels[i].allele = Survivors[i].ALT[1]
        /\ \A i, j \in 1..Len(hist) :
             i < j => \/ hist[i].entry < hist[j].entry
                      \/ /\ hist[i].entry = hist[j].entry
                         /\ hist[i].pos < hist[j].pos

C1_Witness ==
    /\ pc = "done"
    /\ Len(labels) = 2
    /\ Len(hist) = 2
    /\ hist[1].entry # hist[2].entry

\* ---------------------------------------------------------------------- C2
\* C2 as stated: get(index) fails with IndexError for every index outside
\* [0, length()), every negative index included, and returns a Variant only
\* for 0 <= index < length().
C2_Original ==
    got.status # "none" =>
        (got.status = "ok" <=> (0 <= got.idx /\ got.idx < __len__))

\* C2 amended: get(index) fails with IndexError exactly when index >=
\* length() or index < -length(); for 0 <= index < length() it returns the
\* Variant at that position and for -length() <= index < 0 the Variant at
\* position length() + index.
C2_PythonIndexing ==
    got.status # "none" =>
        IF -__len__ <= got.idx /\ got.idx < __len__
        THEN /\ got.status = "ok"
             /\ got.value = << labels[(got.idx % __len__) + 1] >>
        ELSE /\ got.status = "IndexError"
             /\ got.value = << >>

C2_Witness ==
    /\ got.status = "ok"
    /\ got.idx = -1
    /\ __len__ = 2
    /\ got.value = << labels[2] >>

\* ---------------------------------------------------------------------- C3
\* C3: construction is all-or-nothing: once a fatal error has occurred the
\* constructor is in the failed state and has returned no collection, also
\* when Variants of earlier entries and records are already appended; a
\* collection is returned only when no error occurred.
C3_AllOrNothing ==
    /\ error # NoError => (pc = "failed" /\ ~returned /\ got = NoCall)
    /\ pc = "failed" => error # NoError
    /\ returned => (pc = "done" /\ error = NoError)

C3_Witness ==
    /\ pc = "failed"
    /\ ErrorKind(error) = "MalformedRecordError"
    /\ cur = 2
    /\ Len(labels) > 0

\* ---------------------------------------------------------------------- C4
\* C4 as stated: when the list contains an invalid entry, construction fails
\* with ConfigurationError before any VCF file of the list has been opened.
C4_Original ==
    (\E i \in 1..Len(vcf_bam_list) : InvalidEntry(vcf_bam_list[i])) =>
        /\ pc = "failed"
        /\ ErrorKind(error) = "ConfigurationError"
        /\ opened = {}

\* C4 amended: when the loop reaches an invalid entry, construction fails
\* with ConfigurationError before that entry's VCF file, or the file of any
\* later entry, is opened; the files of the entries before it have by then
\* been opened and read.
C4_RejectedBeforeOwnFile ==
    \A i \in 1..Len(vcf_bam_list) :
        InvalidEntry(vcf_bam_list[i]) =>
            /\ pc = "failed"
            /\ ErrorKind(error) = "ConfigurationError"
            /\ i = cur
            /\ opened = 1..(i - 1)
            /\ \A k \in 1..Len(hist) : hist[k].entry < i

C4_Witness ==
    /\ pc = "failed"
    /\ cur = 2
    /\ InvalidEntry(vcf_bam_list[2])
    /\ opened = {1}
    /\ Len(hist) > 0

\* ---------------------------------------------------------------------- C5
\* C5: every VCF file handle acquired during construction is released on
\* every exit path: no handle is open once construction has completed or
\* failed.
C5_HandlesReleased ==
    pc \in {"done", "failed"} => handles = {}

\* ---------------------------------------------------------------------- C6
\* C6: every Variant has zygosity NO_VARIANT exactly when its entry had
\* is_fp = true, whatever the record's counts; under is_fp = false it is
\* HETEROZYGOUS when the heterozygous count is > 0 and HOMOZYGOUS otherwise.
\* The counts are those of the record that has just produced the Variant.
C6_Zygosity ==
    /\ \A i \in 1..Len(labels) :
         /\ i <= Len(Survivors)
         /\ labels[i].zygosity = "NO_VARIANT" <=> IsFp(Survivors[i].entry)
         /\ labels[i].zygosity \in {"NO_VARIANT", "HETEROZYGOUS", "HOMOZYGOUS"}
    /\ (pc = "parse" /\ Processed /\ ~SoftFiltered) =>
         /\ Len(labels) > 0
         /\ labels[Len(labels)].pos = rec.POS
         /\ labels[Len(labels)].zygosity =
              IF IsFp(cur) THEN "NO_VARIANT"
              ELSE IF rec.num_het > 0 THEN "HETEROZYGOUS"
              ELSE "HOMOZYGOUS"

C6_Witness ==
    /\ pc = "parse"
    /\ Len(labels) = 2
    /\ labels[1].zygosity = "HETEROZYGOUS"
    /\ labels[2].zygosity = "NO_VARIANT"
    /\ rec.num_het > 0
    /\ rec.num_hom_alt > 0

\* ---------------------------------------------------------------------- C7
\* C7 as stated: every record that is not a SNP or has more than one
\* alternate allele produces no Variant and a diagnostic, raises no error and
\* lets processing continue, under is_fp = true and under is_fp = false.
C7_Original ==
    (Processed /\ SoftFiltered) =>
        /\ pc = "parse"
        /\ error = NoError
        /\ Len(labels) = Len(Survivors)
        /\ Len(warnings) = Len(Filtered)

\* C7 amended: every record that is not a SNP or has more than one alternate
\* allele and that, under is_fp = false, has all samples called, produces no
\* Variant and a diagnostic, raises no error and lets processing continue;
\* under is_fp = true this holds for every such record.  Every diagnostic is
\* one of these records'.
C7_SoftFilter ==
    /\ (Processed /\ SoftFiltered /\ Complete) =>
         /\ pc = "parse"
         /\ error = NoError
         /\ Len(labels) = Len(Survivors)
         /\ Len(warnings) = Len(Filtered)
         /\ warnings[Len(warnings)].entry = cur
         /\ warnings[Len(warnings)].pos = rec.POS
    /\ Len(warnings) <= Len(Filtered)
    /\ \A i \in 1..Len(warnings) :
         /\ warnings[i].entry = Filtered[i].entry
         /\ warnings[i].pos = Filtered[i].pos
         /\ warnings[i].msg = IF Filtered[i].is_snp THEN "multiallele"
                              ELSE "not an SNP record"

C7_Witness ==
    /\ pc = "parse"
    /\ Len(warnings) = 2
    /\ ~IsFp(warnings[1].entry)
    /\ IsFp(warnings[2].entry)
    /\ warnings[1].msg = "not an SNP record"
    /\ warnings[2].msg = "multiallele"
    /\ labels = << >>

\* ---------------------------------------------------------------------- C8
\* C8: a file of an is_fp = false entry that declares a number of samples
\* other than one fails with UnsupportedInputError before any of its records
\* is read; under is_fp = true the check is not applied and records of a file
\* with any number of samples are read.
C8_SampleCount ==
    /\ (vcf_reader # NoReader /\ ~IsFp(vcf_reader.entry) /\ nsamples # 1) =>
         /\ pc = "failed"
         /\ error = Raise("RuntimeError", 174)
         /\ \A k \in 1..Len(hist) : hist[k].entry # vcf_reader.entry
    /\ ErrorKind(error) = "UnsupportedInputError" =>
         /\ vcf_reader.entry = cur
         /\ ~IsFp(cur)
         /\ nsamples # 1
    /\ (vcf_reader # NoReader /\ IsFp(vcf_reader.entry)) =>
         ErrorKind(error) # "UnsupportedInputError"

C8_Witness ==
    /\ pc = "failed"
    /\ ErrorKind(error) = "UnsupportedInputError"
    /\ nsamples = 0
    /\ cur = 2
    /\ IsFp(1)
    /\ Len(hist) = 2

\* ---------------------------------------------------------------------- C9
\* C9: the per-record checks run in the order call-completeness, SNP filter,
\* multi-allele filter, zygosity, type, allele expansion.  Under is_fp =
\* false a record with fewer called samples than samples aborts the build
\* with MalformedRecordError also when it is not a SNP or is multi-allele; a
\* soft-filtered record with all samples called is skipped without reaching
\* classification, also with both counts 0; a record that passes the filters
\* with both counts 0 fails in the zygosity classification, before its format
\* is parsed; under is_fp = true the call-completeness check is skipped.
C9_CheckOrder ==
    /\ (Processed /\ ~IsFp(cur) /\ rec.num_called < nsamples) =>
         /\ pc = "failed"
         /\ error = Raise("RuntimeError", 178)
         /\ ErrorKind(error) = "MalformedRecordError"
    /\ (Processed /\ Complete /\ SoftFiltered) =>
         /\ pc = "parse"
         /\ error = NoError
    /\ (Processed /\ Complete /\ ~SoftFiltered /\ ~IsFp(cur)
          /\ rec.num_het = 0 /\ rec.num_hom_alt = 0) =>
         /\ pc = "failed"
         /\ error = Raise("ValueError", 87)
    /\ (Processed /\ IsFp(cur)) => error # Raise("RuntimeError", 178)

C9_Witness ==
    /\ pc = "failed"
    /\ error = Raise("RuntimeError", 178)
    /\ ~rec.is_snp
    /\ Len(rec.ALT) > 1
    /\ Len(warnings) = 1
    /\ warnings[1].entry = cur

\* --------------------------------------------------------------------- C10
\* C10: a record that passes both filters and has no FORMAT string yields,
\* under is_fp = true, a Variant whose format is the empty sequence; under
\* is_fp = false it yields no Variant and the build fails with
\* MalformedRecordError.  A present FORMAT string is split on ':' in order.
C10_Format ==
    /\ (Processed /\ ~SoftFiltered /\ rec.FORMAT.isNone /\ IsFp(cur)) =>
         /\ pc = "parse"
         /\ Len(labels) = Len(Survivors)
         /\ labels[Len(labels)].pos = rec.POS
         /\ labels[Len(labels)].format = << >>
    /\ (Processed /\ ~SoftFiltered /\ rec.FORMAT.isNone /\ ~IsFp(cur)) =>
         /\ pc = "failed"
         /\ ErrorKind(error) = "MalformedRecordError"
         /\ Len(labels) = Len(Survivors) - 1
    /\ (Processed /\ ~SoftFiltered /\ ~rec.FORMAT.isNone /\ pc = "parse") =>
         /\ Len(labels) = Len(Survivors)
         /\ labels[Len(labels)].pos = rec.POS
         /\ Join(labels[Len(labels)].format) = rec.FORMAT.s
         /\ \A k \in 1..Len(labels[Len(labels)].format) :
              \A c \in 1..Len(labels[Len(labels)].format[k]) :
                  labels[Len(labels)].format[k][c] # ":"

C10_Witness ==
    /\ pc = "failed"
    /\ error = Raise("RuntimeError", 132)
    /\ Len(labels) = 1
    /\ labels[1].format = << <<"G", "T">>, <<"G", "Q">> >>

====
